---- MODULE Spec2Model ----
(***************************************************************************)
(* A model of src/src/skim.rs: the V1 matcher (build_graph, fuzzy_score,   *)
(* fuzzy_match, fuzzy_indices), the V2 matcher SkimMatcherV2 (score        *)
(* matrices over per-thread scratch vectors, traceback, simple_match) and  *)
(* the character classifier both share.                                    *)
(*                                                                         *)
(* A string is a sequence of characters; a character is a one-letter TLA+  *)
(* string ("a", "B", "_", "1"), NUL stands for '\0' and "zh" for a         *)
(* three-byte non-ASCII letter.                                            *)
(***************************************************************************)
EXTENDS Integers, Sequences, FiniteSets, TLC

\* ------------------------------------------------------------ characters

NUL == "NUL"
NonAscii == {"zh"}
UpperSeq == <<"A", "B", "C", "F", "I", "M", "N", "P", "R", "S", "T", "X">>
LowerSeq == <<"a", "b", "c", "f", "i", "m", "n", "p", "r", "s", "t", "x">>
AsciiUpper == {UpperSeq[k] : k \in DOMAIN UpperSeq}
AsciiLower == {LowerSeq[k] : k \in DOMAIN LowerSeq}
AsciiDigit == {"1", "6"}
HardSepChars == {" ", "/", "|", "(", ")", "[", "]", "{", "}"}
SoftSepChars == {"_", ".", "-", ","}

\* char::to_ascii_lowercase
to_ascii_lowercase(ch) ==
    IF ch \in AsciiUpper
    THEN LowerSeq[CHOOSE k \in DOMAIN UpperSeq : UpperSeq[k] = ch]
    ELSE ch

\* char::is_ascii_uppercase
is_ascii_uppercase(ch) == ch \in AsciiUpper

\* char::is_uppercase (no non-ASCII upper-case letter is in the alphabet)
is_uppercase(ch) == ch \in AsciiUpper

\* char::len_utf8
len_utf8(ch) == IF ch \in NonAscii THEN 3 ELSE 1

CharType_of(ch) ==
    IF ch = NUL THEN "Empty"
    ELSE IF ch \in HardSepChars THEN "HardSep"
    ELSE IF ch \in SoftSepChars THEN "SoftSep"
    ELSE IF ch \in AsciiDigit THEN "Number"
    ELSE IF is_ascii_uppercase(ch) THEN "Upper"
    ELSE "Lower"

CharRole_of_type(prev, cur) ==
    IF prev = "Empty" \/ prev = "HardSep" THEN "Head"
    ELSE IF prev = "SoftSep" THEN "Break"
    ELSE IF (prev = "Lower" /\ cur = "Upper") \/ (prev = "Number" /\ cur = "Upper")
         THEN "Camel"
    ELSE "Tail"

CharRole_of(prev, cur) == CharRole_of_type(CharType_of(prev), CharType_of(cur))

\* crate::util::char_equal: equality of code points, ASCII-folded when the
\* comparison is not case sensitive.
char_equal(a, b, case_sensitive) ==
    IF case_sensitive THEN a = b
    ELSE to_ascii_lowercase(a) = to_ascii_lowercase(b)

\* crate::util::cheap_matches: walk the choice, advancing a pointer into the
\* pattern on every equal character; true iff the pointer reaches the end.
RECURSIVE cheap_scan(_, _, _, _, _)
cheap_scan(choice, pattern, case_sensitive, ci, pi) ==
    IF pi > Len(pattern) THEN TRUE
    ELSE IF ci > Len(choice) THEN FALSE
    ELSE IF char_equal(choice[ci], pattern[pi], case_sensitive)
         THEN cheap_scan(choice, pattern, case_sensitive, ci + 1, pi + 1)
         ELSE cheap_scan(choice, pattern, case_sensitive, ci + 1, pi)

cheap_matches(choice, pattern, case_sensitive) ==
    cheap_scan(choice, pattern, case_sensitive, 1, 1)

\* Option<(ScoreType, Vec<IndexType>)>
None == [some |-> FALSE, score |-> 0, indices |-> <<>>]
Some(score, indices) == [some |-> TRUE, score |-> score, indices |-> indices]

Max(a, b) == IF a >= b THEN a ELSE b

\* Vec::reverse
Reverse(s) == [k \in 1..Len(s) |-> s[Len(s) + 1 - k]]

\* ------------------------------------------------- V2: score configuration

\* SkimScoreConfig::default
score_match == 16
gap_start == -3
gap_extension == -1
bonus_first_char_multiplier == 2
bonus_head == score_match \div 2
bonus_break == score_match \div 2 + gap_extension
bonus_camel == score_match \div 2 + 2 * gap_extension
bonus_consecutive == -(gap_start + gap_extension)
penalty_case_mismatch == gap_extension * 2

MATRIX_CELL_NEG_INFINITY == -32768

\* MatrixCell and MatrixCell::default
Cell(movement, score) == [movement |-> movement, score |-> score]
MatrixCell_default == Cell("Skip", MATRIX_CELL_NEG_INFINITY)

\* Vec::resize(new_len, MatrixCell::default()): truncates, or appends defaults;
\* the cells that stay keep what they held.
resize(vec, new_len) ==
    [k \in 1..new_len |-> IF k <= Len(vec) THEN vec[k] ELSE MatrixCell_default]

\* ScoreMatrix: a flat vector addressed as row * cols + col
At(cols, row, col) == row * cols + col + 1
get_score(mat, cols, row, col) == mat[At(cols, row, col)].score
get_movement(mat, cols, row, col) == mat[At(cols, row, col)].movement
set_score(mat, cols, row, col, score) ==
    [mat EXCEPT ![At(cols, row, col)].score = score]
set_movement(mat, cols, row, col, movement) ==
    [mat EXCEPT ![At(cols, row, col)].movement = movement]
set_cell(mat, cols, row, col, score, movement) ==
    set_movement(set_score(mat, cols, row, col, score), cols, row, col, movement)
get_row(mat, cols, row) == [k \in 1..cols |-> mat[row * cols + k]]

in_place_bonus(prev_char_type, char_type) ==
    LET role == CharRole_of_type(prev_char_type, char_type)
    IN  IF role = "Head" THEN bonus_head
        ELSE IF role = "Camel" THEN bonus_camel
        ELSE IF role = "Break" THEN bonus_break
        ELSE 0

\* Option<u16>: NoMatch stands for None
NoMatch == -1

\* a faulty variant: the case-mismatch penalty is subtracted from the bonus
calculate_match_score_mismatch_rewarded(prev_ch, c, p, c_idx, p_idx, case_sensitive) ==
    IF ~char_equal(c, p, case_sensitive) THEN NoMatch
    ELSE LET bonus0 == in_place_bonus(CharType_of(prev_ch), CharType_of(c))
             bonus1 == IF c_idx = 0 THEN bonus0 * bonus_first_char_multiplier
                       ELSE bonus0
             bonus2 == IF ~case_sensitive /\ p # c
                       THEN bonus1 - penalty_case_mismatch ELSE bonus1
         IN  Max(0, score_match + bonus2)

calculate_match_score(prev_ch, c, p, c_idx, p_idx, case_sensitive) ==
    IF ~char_equal(c, p, case_sensitive) THEN NoMatch
    ELSE LET bonus0 == in_place_bonus(CharType_of(prev_ch), CharType_of(c))
             bonus1 == IF c_idx = 0 THEN bonus0 * bonus_first_char_multiplier
                       ELSE bonus0
             bonus2 == IF ~case_sensitive /\ p # c
                       THEN bonus1 + penalty_case_mismatch ELSE bonus1
         IN  Max(0, score_match + bonus2)

adjust_row_idx(row_idx, compressed) ==
    IF compressed THEN row_idx % 2 ELSE row_idx

\* a faulty variant: only the first character decides
contains_upper_first_only(string) ==
    Len(string) > 0 /\ is_ascii_uppercase(string[1])

contains_upper(string) == \E k \in DOMAIN string : is_ascii_uppercase(string[k])

\* the initialisation loops of build_score_matrix, in the order of the code:
\* the vector after the first n iterations of the loop
RECURSIVE init_col0(_, _, _)
init_col0(mat, cols, n) ==
    IF n = 0 THEN mat
    ELSE set_cell(init_col0(mat, cols, n - 1), cols, n - 1, 0,
                  MATRIX_CELL_NEG_INFINITY, "Skip")

RECURSIVE init_row0(_, _, _, _)
init_row0(mat, cols, score, n) ==
    IF n = 0 THEN mat
    ELSE set_cell(init_row0(mat, cols, score, n - 1), cols, 0, n - 1, score, "Skip")

init_m(m, rows, cols) ==
    init_row0(init_col0(m, cols, rows), cols, MATRIX_CELL_NEG_INFINITY, cols)

init_p(p, rows, cols) ==
    init_row0(init_col0(p, cols, rows), cols, gap_extension, cols)

\* the update of M at (row, col) for pattern index i and choice index j
update_m(m, p, cols, choice, pattern, i, j, compressed, case_sensitive) ==
    LET row == adjust_row_idx(i + 1, compressed)
        row_prev == adjust_row_idx(i, compressed)
        col == j + 1
        col_prev == j
        prev_ch == IF j = 0 THEN NUL ELSE choice[j]
        match_score == calculate_match_score(prev_ch, choice[j + 1], pattern[i + 1],
                                             i, j, case_sensitive)
        prev_match_score == get_score(m, cols, row_prev, col_prev)
        prev_skip_score == get_score(p, cols, row_prev, col_prev)
        m1 == IF prev_match_score >= prev_skip_score
              THEN set_movement(m, cols, row, col, "Match") ELSE m
    IN  IF match_score # NoMatch
        THEN set_score(m1, cols, row, col,
                       match_score + Max(prev_match_score + bonus_consecutive,
                                         prev_skip_score))
        ELSE set_cell(m, cols, row, col, MATRIX_CELL_NEG_INFINITY, "Skip")

\* the update of P at (row, col), reading the M just written
update_p(m, p, cols, i, j, compressed) ==
    LET row == adjust_row_idx(i + 1, compressed)
        col == j + 1
        col_prev == j
        prev_match_score == gap_start + gap_extension + get_score(m, cols, row, col_prev)
        prev_skip_score == gap_extension + get_score(p, cols, row, col_prev)
    IN  IF prev_match_score >= prev_skip_score
        THEN set_cell(p, cols, row, col, prev_match_score, "Match")
        ELSE set_cell(p, cols, row, col, prev_skip_score, "Skip")

\* the inner loop over choice.chars() for pattern index i: the two vectors
\* after its first n iterations, from the vectors `start` it began with
RECURSIVE fill_row(_, _, _, _, _, _, _, _)
fill_row(start, cols, choice, pattern, compressed, case_sensitive, i, n) ==
    IF n = 0 THEN start
    ELSE LET before == fill_row(start, cols, choice, pattern, compressed,
                                case_sensitive, i, n - 1)
             j == n - 1
             m1 == update_m(before.m, before.p, cols, choice, pattern, i, j,
                            compressed, case_sensitive)
             p1 == update_p(m1, before.p, cols, i, j, compressed)
         IN  \* (testing `before` first makes TLC evaluate the earlier cells here,
             \* which keeps its evaluation stack shallow)
             IF before.m = <<>> THEN before ELSE [m |-> m1, p |-> p1]

\* the outer loop over pattern.chars(): the two vectors after its first n rows
RECURSIVE fill(_, _, _, _, _, _, _, _)
fill(m0, p0, cols, choice, pattern, compressed, case_sensitive, n) ==
    IF n = 0 THEN [m |-> m0, p |-> p0]
    ELSE LET before == fill(m0, p0, cols, choice, pattern, compressed,
                            case_sensitive, n - 1)
         IN  IF before.m = <<>> THEN before
             ELSE fill_row(before, cols, choice, pattern, compressed,
                           case_sensitive, n - 1, Len(choice))

build_score_matrix(m, p, rows, cols, choice, pattern, compressed, case_sensitive) ==
    fill(init_m(m, rows, cols), init_p(p, rows, cols), cols, choice, pattern,
         compressed, case_sensitive, Len(pattern))

\* Iterator::max_by_key over last_row.iter().enumerate(): the index (from 0) of
\* the last cell with the greatest score
max_by_key_score(row) ==
    CHOOSE k \in 0..(Len(row) - 1) :
        /\ \A l \in 0..(Len(row) - 1) : row[l + 1].score <= row[k + 1].score
        /\ \A l \in (k + 1)..(Len(row) - 1) : row[l + 1].score < row[k + 1].score

\* the traceback loop of fuzzy; in_m says that `matrix` is m
RECURSIVE traceback(_, _, _, _, _, _, _, _)
traceback(m, p, cols, i, j, in_m, current_move, positions) ==
    IF ~(i > 0 /\ j > 0) THEN positions
    ELSE LET pos1 == IF current_move = "Match" THEN Append(positions, j - 1)
                     ELSE positions
             move1 == get_movement(IF in_m THEN m ELSE p, cols, i, j)
             i1 == IF in_m THEN i - 1 ELSE i
         IN  traceback(m, p, cols, i1, j - 1, move1 = "Match", move1, pos1)

\* ------------------------------------------------- V2: simple_match

\* str byte offsets: the byte index of the character with index k (from 0);
\* byte_offset(s, Len(s)) is s.len()
RECURSIVE byte_offset(_, _)
byte_offset(s, k) == IF k = 0 THEN 0 ELSE byte_offset(s, k - 1) + len_utf8(s[k])

\* the character index at a byte offset that is a character boundary
char_index(s, b) == CHOOSE k \in 0..Len(s) : byte_offset(s, k) = b

\* choice[start_bytes..end_bytes]
byte_slice(s, start_bytes, end_bytes) ==
    SubSeq(s, char_index(s, start_bytes) + 1, char_index(s, end_bytes))

\* Option<usize>: NoByte stands for None
NoByte == -1

\* the forward scan of simple_match; ci and pi count the characters the two
\* iterators have yielded
RECURSIVE forward_scan(_, _, _, _, _, _, _)
forward_scan(choice, pattern, case_sensitive, ci, pi, o_start_byte, start_chars) ==
    IF ~(ci < Len(choice) /\ pi < Len(pattern))
    THEN [ci |-> ci, pi |-> pi, o_start_byte |-> o_start_byte,
          start_chars |-> start_chars]
    ELSE LET byte_idx == byte_offset(choice, ci)
             eq == char_equal(choice[ci + 1], pattern[pi + 1], case_sensitive)
             pi1 == IF eq THEN pi + 1 ELSE pi
             osb == IF eq /\ o_start_byte = NoByte THEN byte_idx ELSE o_start_byte
             sc == IF osb = NoByte THEN start_chars + 1 ELSE start_chars
         IN  forward_scan(choice, pattern, case_sensitive, ci + 1, pi1, osb, sc)

\* the backward scan over choice[start_byte..end_byte].char_indices().rev();
\* k is the character index in the slice (from Len(slice) down to 1), pi counts
\* the pattern characters consumed from the end
RECURSIVE backward_scan(_, _, _, _, _, _)
backward_scan(slice, pattern, case_sensitive, k, pi, o_nearest_start_byte) ==
    IF k = 0 \/ pi >= Len(pattern) THEN o_nearest_start_byte
    ELSE LET eq == char_equal(slice[k], pattern[Len(pattern) - pi], case_sensitive)
         IN  backward_scan(slice, pattern, case_sensitive, k - 1,
                           IF eq THEN pi + 1 ELSE pi,
                           IF eq THEN byte_offset(slice, k - 1)
                           ELSE o_nearest_start_byte)

\* the scoring loop of calculate_score_with_pos over the window
RECURSIVE score_loop(_, _, _, _, _, _, _, _, _, _, _)
score_loop(window, pattern, start_chars, case_sensitive, with_pos, c_idx, p_idx, score, in_gap, consecutive, pos) ==
    IF c_idx >= Len(window) \/ p_idx >= Len(pattern)
    THEN [score |-> score, pos |-> pos]
    ELSE LET prev_ch == IF c_idx = 0 THEN NUL ELSE window[c_idx]
             c == window[c_idx + 1]
             match_score == calculate_match_score(prev_ch, c, pattern[p_idx + 1],
                                c_idx + start_chars, p_idx, case_sensitive)
         IN  IF match_score # NoMatch
             THEN score_loop(window, pattern, start_chars, case_sensitive, with_pos,
                      c_idx + 1, p_idx + 1,
                      score + match_score + consecutive * bonus_consecutive,
                      FALSE, consecutive + 1,
                      IF with_pos THEN Append(pos, c_idx + start_chars) ELSE pos)
             ELSE score_loop(window, pattern, start_chars, case_sensitive, with_pos,
                      c_idx + 1, p_idx,
                      score + (IF in_gap THEN 0 ELSE gap_start) + gap_extension,
                      TRUE, 0, pos)

calculate_score_with_pos(choice, pattern, start_bytes, end_bytes, start_chars, case_sensitive, with_pos) ==
    LET r == score_loop(byte_slice(choice, start_bytes, end_bytes), pattern,
                        start_chars, case_sensitive, with_pos,
                        0, 0, 0, FALSE, 0, <<>>)
    IN  Some(r.score, r.pos)

\* a faulty variant: the test that the forward scan consumed the whole
\* pattern is missing
simple_match_unchecked(choice, pattern, case_sensitive, with_pos) ==
    LET f == forward_scan(choice, pattern, case_sensitive, 0, 0, NoByte, 0)
        start_byte == IF f.o_start_byte = NoByte THEN 0 ELSE f.o_start_byte
        end_byte == byte_offset(choice, f.ci)
        slice == byte_slice(choice, start_byte, end_byte)
        o_nearest == backward_scan(slice, pattern, case_sensitive, Len(slice), 0, NoByte)
        start_byte2 == start_byte + (IF o_nearest = NoByte THEN 0 ELSE o_nearest)
    IN  calculate_score_with_pos(choice, pattern, start_byte2, end_byte,
                                 f.start_chars, case_sensitive, with_pos)

simple_match(choice, pattern, case_sensitive, with_pos) ==
    LET f == forward_scan(choice, pattern, case_sensitive, 0, 0, NoByte, 0)
        start_byte == IF f.o_start_byte = NoByte THEN 0 ELSE f.o_start_byte
        end_byte == byte_offset(choice, f.ci)
        slice == byte_slice(choice, start_byte, end_byte)
        o_nearest == backward_scan(slice, pattern, case_sensitive, Len(slice), 0, NoByte)
        start_byte2 == start_byte + (IF o_nearest = NoByte THEN 0 ELSE o_nearest)
    IN  IF f.pi < Len(pattern) THEN None
        ELSE calculate_score_with_pos(choice, pattern, start_byte2, end_byte,
                                      f.start_chars, case_sensitive, with_pos)

\* ------------------------------------------------- V1

BONUS_MATCHED == 4
BONUS_CASE_MATCH == 4
BONUS_UPPER_MATCH == 6
BONUS_ADJACENCY == 10
BONUS_SEPARATOR == 8
BONUS_CAMEL == 8
PENALTY_CASE_UNMATCHED == -1
PENALTY_LEADING == -6
PENALTY_MAX_LEADING == -18
PENALTY_UNMATCHED == -2

MatchingStatus(idx, score, final_score, adj_num, back_ref) ==
    [idx |-> idx, score |-> score, final_score |-> final_score,
     adj_num |-> adj_num, back_ref |-> back_ref]

MatchingStatus_default == MatchingStatus(0, 0, 0, 1, 0)

\* a faulty variant: the penalty is not capped at PENALTY_MAX_LEADING
leading_penalty_uncapped(choice_idx, pat_idx) ==
    IF pat_idx = 0 THEN choice_idx * PENALTY_LEADING ELSE 0

\* the leading penalty of fuzzy_score
leading_penalty(choice_idx, pat_idx) ==
    IF pat_idx = 0
    THEN Max(choice_idx * PENALTY_LEADING, PENALTY_MAX_LEADING)
    ELSE 0

fuzzy_score(choice_ch, choice_idx, choice_prev_ch, pat_ch, pat_idx, pat_prev_ch) ==
    LET choice_prev_ch_type == CharType_of(choice_prev_ch)
        choice_role == CharRole_of(choice_prev_ch, choice_ch)
    IN  BONUS_MATCHED
        + (IF pat_ch = choice_ch
           THEN (IF is_uppercase(pat_ch) THEN BONUS_UPPER_MATCH ELSE BONUS_CASE_MATCH)
           ELSE PENALTY_CASE_UNMATCHED)
        + (IF choice_role \in {"Head", "Break", "Camel"} THEN BONUS_CAMEL ELSE 0)
        + (IF choice_prev_ch_type \in {"HardSep", "SoftSep"} THEN BONUS_SEPARATOR ELSE 0)
        + leading_penalty(choice_idx, pat_idx)

\* one row of candidates: the inner loop over choice.chars().enumerate()
candidate_row(choice, pat_ch, pat_idx, pat_prev_ch, match_start_idx) ==
    LET hits == SelectSeq([k \in 1..Len(choice) |-> k - 1],
                    LAMBDA idx : /\ to_ascii_lowercase(choice[idx + 1])
                                      = to_ascii_lowercase(pat_ch)
                                 /\ idx >= match_start_idx)
    IN  [n \in 1..Len(hits) |->
            LET idx == hits[n]
                score == fuzzy_score(choice[idx + 1], idx,
                                     IF idx = 0 THEN NUL ELSE choice[idx],
                                     pat_ch, pat_idx, pat_prev_ch)
            IN  MatchingStatus(idx, score, score, 1, 0)]

\* Option<Vec<Vec<MatchingStatus>>>
NoGraph == [some |-> FALSE, scores |-> <<>>]

\* the first loop of build_graph: the match positions and inline scores
RECURSIVE collect_rows(_, _, _, _, _)
collect_rows(choice, pattern, pat_idx, match_start_idx, scores) ==
    IF pat_idx >= Len(pattern) THEN [some |-> TRUE, scores |-> scores]
    ELSE LET vec == candidate_row(choice, pattern[pat_idx + 1], pat_idx,
                                  IF pat_idx = 0 THEN NUL ELSE pattern[pat_idx],
                                  match_start_idx)
         IN  IF Len(vec) = 0 THEN NoGraph
             ELSE collect_rows(choice, pattern, pat_idx + 1, vec[1].idx + 1,
                               Append(scores, vec))

\* prev_row.iter().enumerate().take_while(idx < next.idx).skip_while(idx < prev.idx):
\* the positions (from 0) in prev_row that the chain yields
RECURSIVE take_while_len(_, _, _)
take_while_len(row, bound, k) ==
    IF k < Len(row) /\ row[k + 1].idx < bound THEN take_while_len(row, bound, k + 1)
    ELSE k

\* a faulty variant: the take_while bound is missing, so entries of prev_row at
\* or after next.idx are offered as predecessors too
predecessors_unbounded(prev_row, prev, next) ==
    LET skipped == take_while_len(prev_row, prev.idx, 0)
    IN  [n \in 1..(Len(prev_row) - skipped) |-> skipped + n - 1]

predecessors(prev_row, prev, next) ==
    LET taken == take_while_len(prev_row, next.idx, 0)
        skipped == take_while_len(SubSeq(prev_row, 1, taken), prev.idx, 0)
    IN  [n \in 1..(taken - skipped) |-> skipped + n - 1]

\* .map(...).max_by_key(|&(_, x, _)| x): the last of the greatest
best_predecessor(prev_row, cands, next) ==
    LET final(n) ==
            LET cur == prev_row[cands[n] + 1]
                adj_num == next.idx - cur.idx - 1
            IN  [back_ref |-> cands[n],
                 score |-> cur.final_score + next.score
                           + (IF adj_num = 0 THEN BONUS_ADJACENCY
                              ELSE PENALTY_UNMATCHED * adj_num),
                 adj_num |-> adj_num]
        best == CHOOSE n \in 1..Len(cands) :
                    /\ \A l \in 1..Len(cands) : final(l).score <= final(n).score
                    /\ \A l \in (n + 1)..Len(cands) : final(l).score < final(n).score
    IN  final(best)

\* the body of the loop over cur_row: the new cur_row[idx]
update_status(prev_row, cur_row, idx) ==
    LET next == cur_row[idx + 1]
        prev == IF idx > 0 THEN cur_row[idx] ELSE MatchingStatus_default
        score_before_idx ==
            prev.final_score - prev.score + next.score
            + PENALTY_UNMATCHED * (next.idx - prev.idx)
            - (IF prev.adj_num = 0 THEN BONUS_ADJACENCY ELSE 0)
        cands == predecessors(prev_row, prev, next)
        pick == IF Len(cands) > 0 THEN best_predecessor(prev_row, cands, next)
                ELSE [back_ref |-> prev.back_ref, score |-> score_before_idx,
                      adj_num |-> prev.adj_num]
    IN  IF idx > 0 /\ pick.score < score_before_idx
        THEN MatchingStatus(next.idx, next.score, score_before_idx,
                            pick.adj_num, prev.back_ref)
        ELSE MatchingStatus(next.idx, next.score, pick.score,
                            pick.adj_num, pick.back_ref)

RECURSIVE propagate_row(_, _, _)
propagate_row(prev_row, cur_row, idx) ==
    IF idx >= Len(cur_row) THEN cur_row
    ELSE propagate_row(prev_row,
                       [cur_row EXCEPT ![idx + 1] = update_status(prev_row, cur_row, idx)],
                       idx + 1)

\* the second loop of build_graph: max scores considering adjacent characters
RECURSIVE propagate(_, _)
propagate(scores, pat_idx) ==
    IF pat_idx >= Len(scores) THEN scores
    ELSE propagate([scores EXCEPT ![pat_idx + 1] =
                        propagate_row(scores[pat_idx], scores[pat_idx + 1], 0)],
                   pat_idx + 1)

build_graph(choice, pattern) ==
    LET g == collect_rows(choice, pattern, 0, 0, <<>>)
    IN  IF g.some THEN [some |-> TRUE, scores |-> propagate(g.scores, 1)] ELSE NoGraph

\* last_row.iter().enumerate().max_by_key(|&(_, x)| x.final_score)
max_by_key_final_score(row) ==
    CHOOSE k \in 0..(Len(row) - 1) :
        /\ \A l \in 0..(Len(row) - 1) : row[l + 1].final_score <= row[k + 1].final_score
        /\ \A l \in (k + 1)..(Len(row) - 1) : row[l + 1].final_score < row[k + 1].final_score

fuzzy_match(choice, pattern) ==
    IF Len(pattern) = 0 THEN Some(0, <<>>)
    ELSE LET g == build_graph(choice, pattern)
         IN  IF ~g.some THEN None
             ELSE LET last_row == g.scores[Len(g.scores)]
                  IN  Some(last_row[max_by_key_final_score(last_row) + 1].final_score,
                           <<>>)

\* the while loop of fuzzy_indices, from the last row back to row 0
RECURSIVE pick_back(_, _, _, _)
pick_back(scores, pat_idx, next_col, picked) ==
    IF pat_idx < 0 THEN picked
    ELSE LET status == scores[pat_idx + 1][next_col + 1]
         IN  pick_back(scores, pat_idx - 1, status.back_ref, Append(picked, status.idx))

fuzzy_indices(choice, pattern) ==
    IF Len(pattern) = 0 THEN Some(0, <<>>)
    ELSE LET g == build_graph(choice, pattern)
         IN  IF ~g.some THEN None
             ELSE LET last_row == g.scores[Len(g.scores)]
                      next_col == max_by_key_final_score(last_row)
                  IN  Some(last_row[next_col + 1].final_score,
                           Reverse(pick_back(g.scores, Len(g.scores) - 1, next_col, <<>>)))

\* ------------------------------------------------- V2: SkimMatcherV2::fuzzy

\* the match on self.case
case_sensitive_of(case_matching, pattern) ==
    IF case_matching = "Respect" THEN TRUE
    ELSE IF case_matching = "Ignore" THEN FALSE
    ELSE contains_upper(pattern)

matrix_cols(choice) == Len(choice) + 1
matrix_rows(pattern, compressed) == IF compressed THEN 2 ELSE Len(pattern) + 1

\* a faulty variant: a matrix of exactly element_limit cells is refused too
over_limit_inclusive(limit, rows, cols) == limit > 0 /\ limit <= rows * cols

\* self.element_limit > 0 && self.element_limit < rows * cols
over_limit(limit, rows, cols) == limit > 0 /\ limit < rows * cols

\* a faulty variant: the prefilter is skipped
fuzzy_path_unfiltered(case_matching, limit, choice, pattern, with_pos) ==
    IF Len(pattern) = 0 THEN "empty"
    ELSE IF over_limit(limit, matrix_rows(pattern, ~with_pos), matrix_cols(choice))
         THEN "simple"
    ELSE "matrix"

\* a faulty variant: an empty pattern is reported as no match
fuzzy_path_empty_is_none(case_matching, limit, choice, pattern, with_pos) ==
    IF Len(pattern) = 0 THEN "none"
    ELSE IF ~cheap_matches(choice, pattern, case_sensitive_of(case_matching, pattern))
         THEN "none"
    ELSE IF over_limit(limit, matrix_rows(pattern, ~with_pos), matrix_cols(choice))
         THEN "simple"
    ELSE "matrix"

\* which return of fuzzy a call takes: the empty-pattern return, the prefilter's
\* None, the simple fallback, or the matrix path
fuzzy_path(case_matching, limit, choice, pattern, with_pos) ==
    IF Len(pattern) = 0 THEN "empty"
    ELSE IF ~cheap_matches(choice, pattern, case_sensitive_of(case_matching, pattern))
         THEN "none"
    ELSE IF Len(pattern) = 0 THEN "empty"
    ELSE IF over_limit(limit, matrix_rows(pattern, ~with_pos), matrix_cols(choice))
         THEN "simple"
    ELSE "matrix"

\* ScoreMatrix::new on both scratch vectors, then build_score_matrix
fuzzy_build(m_vec, p_vec, case_matching, choice, pattern, with_pos) ==
    LET compressed == ~with_pos
        rows == matrix_rows(pattern, compressed)
        cols == matrix_cols(choice)
    IN  build_score_matrix(resize(m_vec, rows * cols), resize(p_vec, rows * cols),
                           rows, cols, choice, pattern, compressed,
                           case_sensitive_of(case_matching, pattern))

\* the rest of fuzzy: the argmax over the last row and the traceback
fuzzy_finish(m, p, choice, pattern, with_pos) ==
    LET compressed == ~with_pos
        rows == matrix_rows(pattern, compressed)
        cols == matrix_cols(choice)
        last_row == get_row(m, cols, adjust_row_idx(Len(pattern), compressed))
        pat_idx == max_by_key_score(last_row)
        score == last_row[pat_idx + 1].score
        positions == IF with_pos
                     THEN Reverse(traceback(m, p, cols, rows - 1, pat_idx, TRUE,
                                            "Match", <<>>))
                     ELSE <<>>
    IN  Some(score, positions)

\* fuzzy on a thread whose scratch vectors are m_vec and p_vec: what it returns
fuzzy(m_vec, p_vec, case_matching, limit, choice, pattern, with_pos) ==
    LET path == fuzzy_path(case_matching, limit, choice, pattern, with_pos)
        b == fuzzy_build(m_vec, p_vec, case_matching, choice, pattern, with_pos)
    IN  IF path = "empty" THEN Some(0, <<>>)
        ELSE IF path = "none" THEN None
        ELSE IF path = "simple"
             THEN simple_match(choice, pattern,
                               case_sensitive_of(case_matching, pattern), with_pos)
        ELSE fuzzy_finish(b.m, b.p, choice, pattern, with_pos)

\* ------------------------------------------------- state

VARIABLES
    case,           \* SkimMatcherV2.case
    element_limit,  \* SkimMatcherV2.element_limit
    use_cache,      \* SkimMatcherV2.use_cache
    m_cache,        \* SkimMatcherV2.m_cache: per thread, the scratch vector of M
    p_cache,        \* SkimMatcherV2.p_cache: per thread, the scratch vector of P
    pc,             \* per thread: where its call stands
    call,           \* per thread: the function called and its arguments
    ret             \* per thread: the value the call returned

vars == <<case, element_limit, use_cache, m_cache, p_cache, pc, call, ret>>
config == <<case, element_limit, use_cache>>

Threads == {"t1", "t2"}
MainThread == "t1"

\* a faulty variant: one slot shared by all the threads
shared_slot(t) == MainThread

\* CachedThreadLocal::get_or / get: the slot of the calling thread
thread_slot(t) == t

\* a CachedThreadLocal slot: absent until the thread's first get_or
NoEntry == [present |-> FALSE, vec |-> <<>>]
Entry(vec) == [present |-> TRUE, vec |-> vec]

NoCall == [fn |-> "none", choice |-> <<>>, pattern |-> <<>>,
           case_sensitive |-> FALSE, with_pos |-> FALSE]
CallOf(fn, choice, pattern, case_sensitive, with_pos) ==
    [fn |-> fn, choice |-> choice, pattern |-> pattern,
     case_sensitive |-> case_sensitive, with_pos |-> with_pos]

CaseMatching == {"Respect", "Ignore", "Smart"}

\* SkimMatcherV2::default() followed by the builder calls that set the three
\* options; no thread has called the matcher yet
InitWith(cases, limits, caches) ==
    /\ case \in cases
    /\ element_limit \in limits
    /\ use_cache \in caches
    /\ m_cache = [t \in Threads |-> NoEntry]
    /\ p_cache = [t \in Threads |-> NoEntry]
    /\ pc = [t \in Threads |-> "idle"]
    /\ call = [t \in Threads |-> NoCall]
    /\ ret = [t \in Threads |-> None]

\* fuzzy up to and including build_score_matrix (lines 741-781): the early
\* returns, or the thread's scratch vectors resized and filled
FuzzyBegin(t, choice, pattern, with_pos) ==
    /\ pc[t] = "idle"
    /\ call' = [call EXCEPT ![t] = CallOf("fuzzy", choice, pattern, FALSE, with_pos)]
    /\ LET s == thread_slot(t)
           path == fuzzy_path(case, element_limit, choice, pattern, with_pos)
           b == fuzzy_build(m_cache[s].vec, p_cache[s].vec, case, choice, pattern,
                            with_pos)
       IN  IF path = "matrix"
           THEN /\ m_cache' = [m_cache EXCEPT ![s] = Entry(b.m)]
                /\ p_cache' = [p_cache EXCEPT ![s] = Entry(b.p)]
                /\ pc' = [pc EXCEPT ![t] = "built"]
                /\ ret' = ret
           ELSE /\ ret' = [ret EXCEPT ![t] =
                      fuzzy(m_cache[s].vec, p_cache[s].vec, case, element_limit,
                            choice, pattern, with_pos)]
                /\ pc' = [pc EXCEPT ![t] = "done"]
                /\ UNCHANGED <<m_cache, p_cache>>
    /\ UNCHANGED config

\* the rest of fuzzy (lines 782-821): argmax, traceback, and with use_cache off
\* the release of the scratch vectors. RefCell::replace borrows the cell
\* mutably while the RefMut taken at line 770 is still alive, so it panics
\* (BorrowMutError) and the call never returns.
FuzzyEnd(t) ==
    /\ pc[t] = "built"
    /\ IF use_cache
       THEN /\ ret' = [ret EXCEPT ![t] =
                  fuzzy_finish(m_cache[thread_slot(t)].vec, p_cache[thread_slot(t)].vec,
                               call[t].choice, call[t].pattern, call[t].with_pos)]
            /\ pc' = [pc EXCEPT ![t] = "done"]
       ELSE /\ pc' = [pc EXCEPT ![t] = "panicked"]
            /\ ret' = ret
    /\ UNCHANGED <<m_cache, p_cache, call, config>>

\* SkimMatcherV2::simple_match called directly
SimpleMatch(t, choice, pattern, case_sensitive, with_pos) ==
    /\ pc[t] = "idle"
    /\ call' = [call EXCEPT ![t] =
                    CallOf("simple_match", choice, pattern, case_sensitive, with_pos)]
    /\ ret' = [ret EXCEPT ![t] = simple_match(choice, pattern, case_sensitive, with_pos)]
    /\ pc' = [pc EXCEPT ![t] = "done"]
    /\ UNCHANGED <<m_cache, p_cache, config>>

\* the V1 entry points (SkimMatcher, and the free functions it forwards to)
V1FuzzyMatch(t, choice, pattern) ==
    /\ pc[t] = "idle"
    /\ call' = [call EXCEPT ![t] = CallOf("v1_fuzzy_match", choice, pattern, FALSE, FALSE)]
    /\ ret' = [ret EXCEPT ![t] = fuzzy_match(choice, pattern)]
    /\ pc' = [pc EXCEPT ![t] = "done"]
    /\ UNCHANGED <<m_cache, p_cache, config>>

V1FuzzyIndices(t, choice, pattern) ==
    /\ pc[t] = "idle"
    /\ call' = [call EXCEPT ![t] = CallOf("v1_fuzzy_indices", choice, pattern, FALSE, TRUE)]
    /\ ret' = [ret EXCEPT ![t] = fuzzy_indices(choice, pattern)]
    /\ pc' = [pc EXCEPT ![t] = "done"]
    /\ UNCHANGED <<m_cache, p_cache, config>>

\* the caller takes the returned value; the thread is free for its next call
Return(t) ==
    /\ pc[t] = "done"
    /\ pc' = [pc EXCEPT ![t] = "idle"]
    /\ call' = [call EXCEPT ![t] = NoCall]
    /\ ret' = [ret EXCEPT ![t] = None]
    /\ UNCHANGED <<m_cache, p_cache, config>>

\* the panic of FuzzyEnd unwinds out of fuzzy (dropping its RefMut guards, the
\* scratch vectors keep their cells); a caller that catches it calls again
Unwind(t) ==
    /\ pc[t] = "panicked"
    /\ pc' = [pc EXCEPT ![t] = "idle"]
    /\ call' = [call EXCEPT ![t] = NoCall]
    /\ UNCHANGED <<m_cache, p_cache, ret, config>>

\* ------------------------------------------------- inputs

Strings(alphabet, n) == UNION {[1..k -> alphabet] : k \in 0..n}

\* an idle thread calls fuzzy_indices (with_pos) or fuzzy_match of the V2 matcher
CallFuzzy(t, choices, patterns) ==
    /\ pc[t] = "idle"
    /\ \E choice \in choices, pattern \in patterns, with_pos \in BOOLEAN :
           FuzzyBegin(t, choice, pattern, with_pos)

\* an idle thread calls simple_match
CallSimpleMatch(t, choices, patterns) ==
    /\ pc[t] = "idle"
    /\ \E choice \in choices, pattern \in patterns,
          case_sensitive \in BOOLEAN, with_pos \in BOOLEAN :
           SimpleMatch(t, choice, pattern, case_sensitive, with_pos)

\* an idle thread calls the V1 matcher
CallV1FuzzyMatch(t, choices, patterns) ==
    /\ pc[t] = "idle"
    /\ \E choice \in choices, pattern \in patterns : V1FuzzyMatch(t, choice, pattern)

CallV1FuzzyIndices(t, choices, patterns) ==
    /\ pc[t] = "idle"
    /\ \E choice \in choices, pattern \in patterns : V1FuzzyIndices(t, choice, pattern)

\* Spec: one thread calling every entry point of one matcher again and again,
\* under every configuration
SmallChoiceLen == 2
SmallPatternLen == 1
SmallAlphabet == {"a", "A"}
SmallChoices == Strings(SmallAlphabet, SmallChoiceLen)
SmallPatterns == Strings(SmallAlphabet, SmallPatternLen)
\* an element limit that the larger matrices of these inputs exceed
SmallLimit == 4

Init == InitWith(CaseMatching, {0, SmallLimit}, BOOLEAN)

Next ==
    \/ CallFuzzy(MainThread, SmallChoices, SmallPatterns)
    \/ CallSimpleMatch(MainThread, SmallChoices, SmallPatterns)
    \/ CallV1FuzzyMatch(MainThread, SmallChoices, SmallPatterns)
    \/ CallV1FuzzyIndices(MainThread, SmallChoices, SmallPatterns)
    \/ FuzzyEnd(MainThread)
    \/ Return(MainThread)
    \/ Unwind(MainThread)

Spec == Init /\ [][Next]_vars

\* SpecFresh: the first call on a freshly built matcher, every entry point,
\* every case policy, with and without an element limit
MaxChoiceLen == 3
MaxPatternLen == 2
Alphabet == {"a", "b", "A"}
Choices == Strings(Alphabet, MaxChoiceLen)
Patterns == Strings(Alphabet, MaxPatternLen)

InitFresh == InitWith(CaseMatching, {0, SmallLimit}, {TRUE})

NextFresh ==
    \/ CallFuzzy(MainThread, Choices, Patterns)
    \/ CallSimpleMatch(MainThread, Choices, Patterns)
    \/ CallV1FuzzyMatch(MainThread, Choices, Patterns)
    \/ CallV1FuzzyIndices(MainThread, Choices, Patterns)
    \/ FuzzyEnd(MainThread)

SpecFresh == InitFresh /\ [][NextFresh]_vars

\* SpecCache: one thread calling fuzzy_match / fuzzy_indices of the default
\* matcher again and again, its scratch vectors kept between the calls
CacheChoiceLen == 3
CachePatternLen == 2
CacheChoices == Strings(SmallAlphabet, CacheChoiceLen)
CachePatterns == Strings(SmallAlphabet, CachePatternLen)

InitCache == InitWith({"Smart"}, {0}, {TRUE})

NextCache ==
    \/ CallFuzzy(MainThread, CacheChoices, CachePatterns)
    \/ FuzzyEnd(MainThread)
    \/ Return(MainThread)

SpecCache == InitCache /\ [][NextCache]_vars

\* SpecRows: the first call of the default matcher on choices with long runs of
\* unmatched characters: a head character, then the pattern's characters with
\* gap filler characters after each but the last
MaxGap == 10
RowLetters == {"a", "b", "c"}
Filler == "x"
RECURSIVE Gapped(_, _)
Gapped(pattern, gap) ==
    IF Len(pattern) <= 1 THEN pattern
    ELSE <<pattern[1]>> \o [k \in 1..gap |-> Filler] \o Gapped(Tail(pattern), gap)
RowPatterns == [1..3 -> RowLetters]
RowChoices(pattern) ==
    {<<head>> \o Gapped(pattern, gap) : head \in RowLetters, gap \in 0..MaxGap}

InitRows == InitWith({"Smart"}, {0}, {TRUE})

NextRows ==
    \/ \E pattern \in RowPatterns : CallFuzzy(MainThread, RowChoices(pattern), {pattern})
    \/ FuzzyEnd(MainThread)

SpecRows == InitRows /\ [][NextRows]_vars

\* SpecThreads: two threads calling one shared default matcher, their calls
\* interleaved step by step
ThreadLen == 2
ThreadStrings == Strings({"a"}, ThreadLen)

InitThreads == InitWith({"Smart"}, {0}, {TRUE})

NextThreads ==
    \E t \in Threads :
        \/ CallFuzzy(t, ThreadStrings, ThreadStrings)
        \/ FuzzyEnd(t)
        \/ Return(t)

SpecThreads == InitThreads /\ [][NextThreads]_vars

\* SpecQuality: one thread calling the default matcher again and again on the
\* candidates of tests::test_matcher_quality_v2 for the patterns "ast" and "int"
QualityCases ==
    { <<(<<"a", "s", "t">>),
        <<(<<"a", "s", "t">>), (<<"A", "S", "T">>),
          (<<"I", "N", "T", "_", "F", "A", "S", "T", "1", "6", "_", "M", "A", "X">>)>> >>,
      <<(<<"i", "n", "t">>),
        <<(<<"i", "n", "t">>), (<<"I", "N", "T">>),
          (<<"P", "R", "I", "N", "T">>)>> >> }
QualityPatterns == {qc[1] : qc \in QualityCases}
QualityChoices == UNION {{qc[2][k] : k \in DOMAIN qc[2]} : qc \in QualityCases}

InitQuality == InitWith({"Smart"}, {0}, {TRUE})

NextQuality ==
    \/ CallFuzzy(MainThread, QualityChoices, QualityPatterns)
    \/ FuzzyEnd(MainThread)
    \/ Return(MainThread)

SpecQuality == InitQuality /\ [][NextQuality]_vars

\* SpecLeading: the V1 matcher on choices that begin with up to MaxLead filler
\* characters, followed by up to two letters
MaxLead == 5
LeadLetters == {"a", "A"}
LeadChoices ==
    {[k \in 1..lead |-> Filler] \o letters :
        lead \in 0..MaxLead, letters \in Strings(LeadLetters, 2)}
LeadPatterns == Strings(LeadLetters, 2)

InitLeading == InitWith({"Smart"}, {0}, {TRUE})

NextLeading ==
    \/ CallV1FuzzyMatch(MainThread, LeadChoices, LeadPatterns)
    \/ CallV1FuzzyIndices(MainThread, LeadChoices, LeadPatterns)

SpecLeading == InitLeading /\ [][NextLeading]_vars

\* ------------------------------------------------- properties

\* the call of MainThread (of thread t) has returned from fn
Done(t, fn) == pc[t] = "done" /\ call[t].fn = fn

HasAsciiUpper(pattern) == \E k \in 1..Len(pattern) : pattern[k] \in AsciiUpper

\* the case policy in force: TRUE when characters must be identical
PolicyCaseSensitive(case_matching, pattern) ==
    \/ case_matching = "Respect"
    \/ case_matching = "Smart" /\ HasAsciiUpper(pattern)

SameChar(a, b, case_sensitive) ==
    IF case_sensitive THEN a = b
    ELSE to_ascii_lowercase(a) = to_ascii_lowercase(b)

\* pattern is an in-order, not necessarily contiguous, subsequence of choice
IsSubsequence(pattern, choice, case_sensitive) ==
    \E f \in [1..Len(pattern) -> 1..Len(choice)] :
        /\ \A k \in 1..(Len(pattern) - 1) : f[k] < f[k + 1]
        /\ \A k \in 1..Len(pattern) : SameChar(choice[f[k]], pattern[k], case_sensitive)

\* one index per pattern character, strictly increasing, each naming an equal
\* character of choice (indices count characters from 0)
IndexFidelity(choice, pattern, indices, case_sensitive) ==
    /\ Len(indices) = Len(pattern)
    /\ \A k \in 1..(Len(indices) - 1) : indices[k] < indices[k + 1]
    /\ \A k \in 1..Len(indices) :
           /\ indices[k] \in 0..(Len(choice) - 1)
           /\ k <= Len(pattern)
           /\ SameChar(choice[indices[k] + 1], pattern[k], case_sensitive)

\* what a freshly constructed matcher of the same configuration returns
FreshResult(c) ==
    fuzzy(<<>>, <<>>, case, element_limit, c.choice, c.pattern, c.with_pos)

\* C1: after any earlier fuzzy_match / fuzzy_indices calls on the same matcher
\* and thread, every Some((_, indices)) that fuzzy_indices returns has one
\* index per pattern character, strictly increasing, each index naming a
\* choice character equal to its pattern character under the case policy.
C1_IndexFidelityAfterCalls ==
    (Done(MainThread, "fuzzy") /\ call[MainThread].with_pos /\ ret[MainThread].some)
        => IndexFidelity(call[MainThread].choice, call[MainThread].pattern,
                         ret[MainThread].indices,
                         PolicyCaseSensitive(case, call[MainThread].pattern))

\* C2: whatever calls were made before on the matcher, a call of fuzzy_indices
\* or fuzzy_match returns what a freshly constructed matcher returns for the
\* same choice and pattern (so equal inputs give equal results).
C2_SameAsFreshMatcher ==
    Done(MainThread, "fuzzy") => ret[MainThread] = FreshResult(call[MainThread])

\* C3: the score of fuzzy with with_pos = false (two-row matrices) equals the
\* score of fuzzy with with_pos = true (full matrices) on the same inputs.
C3_CompressedScoreEqualsFull ==
    (Done(MainThread, "fuzzy") /\ ~call[MainThread].with_pos /\ ret[MainThread].some)
        => ret[MainThread].score
               = fuzzy(<<>>, <<>>, case, element_limit, call[MainThread].choice,
                       call[MainThread].pattern, TRUE).score

\* C4: for a non-empty pattern, V1 fuzzy_match / fuzzy_indices and V2 fuzzy
\* (either with_pos, with or without an element limit) return None exactly
\* when the pattern is not a subsequence of the choice: ASCII-case-insensitively
\* for V1, under the active case policy for V2.
C4_NoneIffNotSubsequence ==
    \A fn \in {"fuzzy", "v1_fuzzy_match", "v1_fuzzy_indices"} :
        (Done(MainThread, fn) /\ Len(call[MainThread].pattern) > 0)
            => (ret[MainThread].some
                    <=> IsSubsequence(call[MainThread].pattern, call[MainThread].choice,
                                      fn = "fuzzy"
                                      /\ PolicyCaseSensitive(case, call[MainThread].pattern)))

\* C4's case: under an element limit V2 returned None for a pattern whose
\* characters all occur in the choice although it is no subsequence of it
C4_Witness ==
    /\ Done(MainThread, "fuzzy")
    /\ element_limit > 0
    /\ ~ret[MainThread].some
    /\ Len(call[MainThread].pattern) > 1
    /\ \A k \in 1..Len(call[MainThread].pattern) :
           \E l \in 1..Len(call[MainThread].choice) :
               SameChar(call[MainThread].choice[l], call[MainThread].pattern[k],
                        PolicyCaseSensitive(case, call[MainThread].pattern))

\* C5: every Some((_, indices)) of V1 fuzzy_indices has one index per pattern
\* character, strictly increasing, each naming a choice character equal to its
\* pattern character up to ASCII case, whichever back_ref chain was recorded.
C5_V1IndexFidelity ==
    (Done(MainThread, "v1_fuzzy_indices") /\ ret[MainThread].some)
        => IndexFidelity(call[MainThread].choice, call[MainThread].pattern,
                         ret[MainThread].indices, FALSE)

\* C5's case: the best cell of the last row points at a predecessor that lies
\* before its left neighbour's own match, which no candidate of that cell can
\* do: the back_ref was carried over by the stay-in-row option
C5_Witness ==
    /\ Done(MainThread, "v1_fuzzy_indices")
    /\ ret[MainThread].some
    /\ Len(call[MainThread].pattern) > 1
    /\ LET scores == build_graph(call[MainThread].choice, call[MainThread].pattern).scores
           last_row == scores[Len(scores)]
           prev_row == scores[Len(scores) - 1]
           col == max_by_key_final_score(last_row)
       IN  /\ col > 0
           /\ last_row[col + 1].back_ref = last_row[col].back_ref
           /\ prev_row[last_row[col + 1].back_ref + 1].idx < last_row[col].idx
           /\ prev_row[last_row[col + 1].back_ref + 1].idx + 1 < last_row[col + 1].idx

\* C6: the positions of simple_match with with_pos = true are character
\* indices into the whole choice: one per pattern character, strictly
\* increasing, each naming a choice character equal to its pattern character
\* under case_sensitive.
C6_SimpleMatchPositions ==
    (Done(MainThread, "simple_match") /\ call[MainThread].with_pos
     /\ ret[MainThread].some)
        => IndexFidelity(call[MainThread].choice, call[MainThread].pattern,
                         ret[MainThread].indices, call[MainThread].case_sensitive)

\* C7: an empty pattern matches every choice with score 0 and no indices, for
\* V1 fuzzy_match and fuzzy_indices and for V2 fuzzy_match, fuzzy_indices and
\* simple_match, under every case policy and whatever was called before.
C7_EmptyPattern ==
    (pc[MainThread] = "done" /\ call[MainThread].pattern = <<>>)
        => ret[MainThread] = Some(0, <<>>)

\* C7's case: fuzzy returned for an empty pattern and an empty choice on a
\* matcher whose scratch vectors hold an earlier call's matrices
C7_Witness ==
    /\ Done(MainThread, "fuzzy")
    /\ call[MainThread].pattern = <<>>
    /\ call[MainThread].choice = <<>>
    /\ m_cache[MainThread].present
    /\ Len(m_cache[MainThread].vec) > 0

\* C8: smart_case returns what respect_case returns when the pattern has an
\* ASCII upper-case letter, and what ignore_case returns otherwise.
C8_SmartCase ==
    (Done(MainThread, "fuzzy") /\ case = "Smart")
        => ret[MainThread]
               = fuzzy(<<>>, <<>>,
                       IF HasAsciiUpper(call[MainThread].pattern) THEN "Respect"
                       ELSE "Ignore",
                       element_limit, call[MainThread].choice,
                       call[MainThread].pattern, call[MainThread].with_pos)

\* C8's case: a smart_case call with an upper-case letter after a lower-case
\* one in the pattern, rejected although ignore_case accepts it
C8_Witness ==
    /\ Done(MainThread, "fuzzy")
    /\ case = "Smart"
    /\ Len(call[MainThread].pattern) > 1
    /\ call[MainThread].pattern[1] \in AsciiLower
    /\ HasAsciiUpper(call[MainThread].pattern)
    /\ ~ret[MainThread].some
    /\ fuzzy(<<>>, <<>>, "Ignore", element_limit, call[MainThread].choice,
             call[MainThread].pattern, call[MainThread].with_pos).some

\* C9: a thread's scratch vectors and result change only in that thread's own
\* steps, and its vectors come into being only in its own matrix-path call.
C9_OwnScratchOnly ==
    [][\A t \in Threads :
          /\ (pc'[t] = pc[t] /\ call'[t] = call[t])
                 => /\ m_cache'[t] = m_cache[t]
                    /\ p_cache'[t] = p_cache[t]
                    /\ ret'[t] = ret[t]
          /\ (~m_cache[t].present /\ m_cache'[t].present) => pc'[t] = "built"
          /\ (~p_cache[t].present /\ p_cache'[t].present) => pc'[t] = "built"
          /\ (pc[t] = "built" /\ pc'[t] = "done")
                 => ret'[t] = fuzzy_finish(m_cache[t].vec, p_cache[t].vec,
                                           call[t].choice, call[t].pattern,
                                           call[t].with_pos)]_vars

\* C9's case: one thread is between building its matrices and reading them
\* while the other has completed a call that left different matrices in its
\* own vectors
C9_Witness ==
    /\ pc["t1"] = "built"
    /\ pc["t2"] = "done"
    /\ m_cache["t1"].present
    /\ m_cache["t2"].present
    /\ m_cache["t1"].vec # m_cache["t2"].vec

\* C10: for a non-empty pattern that passes the prefilter, fuzzy returns
\* simple_match(choice, pattern, case_sensitive, with_pos) and leaves the
\* scratch vectors as they were when element_limit > 0 and rows * cols >
\* element_limit; otherwise it takes the matrix path.
C10_ElementLimitRouting ==
    [][(pc[MainThread] = "idle" /\ call'[MainThread].fn = "fuzzy"
        /\ Len(call'[MainThread].pattern) > 0
        /\ IsSubsequence(call'[MainThread].pattern, call'[MainThread].choice,
                         PolicyCaseSensitive(case, call'[MainThread].pattern)))
       => LET c == call'[MainThread]
              rows == IF c.with_pos THEN Len(c.pattern) + 1 ELSE 2
              cols == Len(c.choice) + 1
          IN  IF element_limit > 0 /\ rows * cols > element_limit
              THEN /\ pc'[MainThread] = "done"
                   /\ ret'[MainThread]
                          = simple_match(c.choice, c.pattern,
                                         PolicyCaseSensitive(case, c.pattern),
                                         c.with_pos)
                   /\ m_cache' = m_cache
                   /\ p_cache' = p_cache
              ELSE pc'[MainThread] = "built"]_vars

\* C10's case: a call over the element limit has returned on a thread whose
\* scratch vectors hold an earlier call's matrices
C10_Witness ==
    /\ Done(MainThread, "fuzzy")
    /\ element_limit > 0
    /\ Len(call[MainThread].pattern) > 0
    /\ ret[MainThread].some
    /\ element_limit < (IF call[MainThread].with_pos
                        THEN Len(call[MainThread].pattern) + 1 ELSE 2)
                       * (Len(call[MainThread].choice) + 1)
    /\ m_cache[MainThread].present
    /\ Len(m_cache[MainThread].vec) > 0

\* C11: with use_cache(false), a thread that is not inside a call has both its
\* scratch vectors empty, and every call that built its matrices returns (by
\* the empty-pattern return, the prefilter, the fallback or the matrix path).
C11_ScratchReleased ==
    ~use_cache
        => /\ pc[MainThread] # "panicked"
           /\ pc[MainThread] \in {"idle", "done"}
                  => /\ m_cache[MainThread].vec = <<>>
                     /\ p_cache[MainThread].vec = <<>>

\* C12: with the default matcher the candidates of each quality case all match
\* and their fuzzy_match scores do not increase along the list: "ast", "AST",
\* "INT_FAST16_MAX" for pattern "ast"; "int", "INT", "PRINT" for pattern "int".
C12_QualityOrder ==
    \A qc \in QualityCases :
        \A k \in DOMAIN qc[2] :
            (Done(MainThread, "fuzzy") /\ ~call[MainThread].with_pos
             /\ call[MainThread].pattern = qc[1] /\ call[MainThread].choice = qc[2][k])
                => /\ ret[MainThread].some
                   /\ \A l \in DOMAIN qc[2] :
                          LET other == fuzzy(<<>>, <<>>, case, element_limit,
                                             qc[2][l], qc[1], FALSE)
                          IN  /\ other.some
                              /\ l > k => ret[MainThread].score >= other.score
                              /\ l < k => ret[MainThread].score <= other.score

\* C12's case: fuzzy_match has returned for the middle candidate "AST" of
\* pattern "ast", with a score strictly between those of its two neighbours
C12_Witness ==
    /\ Done(MainThread, "fuzzy")
    /\ ~call[MainThread].with_pos
    /\ call[MainThread].pattern = <<"a", "s", "t">>
    /\ call[MainThread].choice = <<"A", "S", "T">>
    /\ ret[MainThread].some
    /\ ret[MainThread].score
           < fuzzy(<<>>, <<>>, case, element_limit, <<"a", "s", "t">>,
                   <<"a", "s", "t">>, FALSE).score
    /\ ret[MainThread].score
           > fuzzy(<<>>, <<>>, case, element_limit,
                   <<"I", "N", "T", "_", "F", "A", "S", "T", "1", "6", "_", "M", "A", "X">>,
                   <<"a", "s", "t">>, FALSE).score

\* C13: simple_match returns Some exactly when cheap_matches accepts the same
\* arguments, that is exactly when the pattern is an in-order subsequence of
\* the choice under case_sensitive (so Some for the empty pattern, None for a
\* non-empty pattern on an empty choice).
C13_SimpleMatchIffPrefilter ==
    Done(MainThread, "simple_match")
        => /\ ret[MainThread].some
                  <=> cheap_matches(call[MainThread].choice, call[MainThread].pattern,
                                    call[MainThread].case_sensitive)
           /\ ret[MainThread].some
                  <=> IsSubsequence(call[MainThread].pattern, call[MainThread].choice,
                                    call[MainThread].case_sensitive)
           /\ call[MainThread].pattern = <<>> => ret[MainThread].some
           /\ (call[MainThread].pattern # <<>> /\ call[MainThread].choice = <<>>)
                  => ~ret[MainThread].some

\* C13's case: simple_match returned None for a pattern whose characters all
\* occur in the choice, the first of them only after the second
C13_Witness ==
    /\ Done(MainThread, "simple_match")
    /\ ~ret[MainThread].some
    /\ Len(call[MainThread].pattern) = 2
    /\ Len(call[MainThread].choice) >= 2
    /\ call[MainThread].pattern[1] # call[MainThread].pattern[2]
    /\ \A k \in 1..2 :
           \E l \in 1..Len(call[MainThread].choice) :
               SameChar(call[MainThread].choice[l], call[MainThread].pattern[k],
                        call[MainThread].case_sensitive)

\* the match score build_score_matrix gives pattern index i on choice index j
CellMatchScore(choice, pattern, i, j, case_sensitive) ==
    calculate_match_score(IF j = 0 THEN NUL ELSE choice[j], choice[j + 1],
                          pattern[i + 1], i, j, case_sensitive)

\* the score of the alignment that matches pattern index k - 1 at choice index
\* indices[k], summed over the first n indices: the row-0 value of P, the
\* match score of every cell, bonus_consecutive for adjacent matches and
\* gap_start + k * gap_extension for k characters skipped between two matches
RECURSIVE AlignmentScore(_, _, _, _, _)
AlignmentScore(choice, pattern, indices, case_sensitive, n) ==
    IF n = 0 THEN gap_extension
    ELSE AlignmentScore(choice, pattern, indices, case_sensitive, n - 1)
         + CellMatchScore(choice, pattern, n - 1, indices[n], case_sensitive)
         + (IF n = 1 THEN 0
            ELSE IF indices[n] = indices[n - 1] + 1 THEN bonus_consecutive
            ELSE gap_start + (indices[n] - indices[n - 1] - 1) * gap_extension)

\* C14: on a fresh matcher, the score fuzzy_indices returns on the matrix path
\* (the greatest score of the last row of M) is the score of the alignment its
\* indices describe, recomputed from the indices alone.
C14_ScoreOfReturnedAlignment ==
    (Done(MainThread, "fuzzy") /\ call[MainThread].with_pos /\ ret[MainThread].some
     /\ m_cache[MainThread].present
     /\ IndexFidelity(call[MainThread].choice, call[MainThread].pattern,
                      ret[MainThread].indices,
                      PolicyCaseSensitive(case, call[MainThread].pattern)))
        => ret[MainThread].score
               = AlignmentScore(call[MainThread].choice, call[MainThread].pattern,
                                ret[MainThread].indices,
                                PolicyCaseSensitive(case, call[MainThread].pattern),
                                Len(call[MainThread].pattern))

\* the matrices a thread has just built, in the full layout
BuiltFull(t) ==
    /\ pc[t] = "built"
    /\ call[t].fn = "fuzzy"
    /\ call[t].with_pos

\* C15: after build_score_matrix in the full layout, every cell (i, j) with
\* i, j >= 1 whose characters match has score match_score + max(M[i-1][j-1] +
\* bonus_consecutive, P[i-1][j-1]), movement Match when the first term is
\* strictly greater and Skip when it is strictly smaller, whatever the scratch
\* vectors held before.
C15_MatchCellRecurrence ==
    BuiltFull(MainThread)
        => LET c == call[MainThread]
               cols == Len(c.choice) + 1
               m == m_cache[MainThread].vec
               p == p_cache[MainThread].vec
               cs == PolicyCaseSensitive(case, c.pattern)
           IN  \A i \in 1..Len(c.pattern), j \in 1..Len(c.choice) :
                   SameChar(c.choice[j], c.pattern[i], cs)
                       => LET first == get_score(m, cols, i - 1, j - 1) + bonus_consecutive
                              second == get_score(p, cols, i - 1, j - 1)
                          IN  /\ get_score(m, cols, i, j)
                                     = CellMatchScore(c.choice, c.pattern, i - 1, j - 1, cs)
                                       + Max(first, second)
                              /\ first > second => get_movement(m, cols, i, j) = "Match"
                              /\ first < second => get_movement(m, cols, i, j) = "Skip"

\* a cell as the initialisation loops are said to leave it
InitialCell(mat, cols, row, col) ==
    /\ get_score(mat, cols, row, col) = MATRIX_CELL_NEG_INFINITY
    /\ get_movement(mat, cols, row, col) = "Skip"

\* C16: the initialisation loops of build_score_matrix leave score
\* NEG_INFINITY and movement Skip in every column-0 cell of M and of P
\* (P[0][0] included) and in every row-0 cell of M, in both layouts. The fill
\* writes columns 1.. only, and rows 1.. in the full layout (row 1 only for a
\* one-character pattern), so these cells of the built matrices are as the
\* initialisation left them.
C16_InitialCells ==
    (pc[MainThread] = "built" /\ call[MainThread].fn = "fuzzy")
        => LET c == call[MainThread]
               rows == IF c.with_pos THEN Len(c.pattern) + 1 ELSE 2
               cols == Len(c.choice) + 1
               m == m_cache[MainThread].vec
               p == p_cache[MainThread].vec
           IN  /\ \A i \in 0..(rows - 1) :
                      InitialCell(m, cols, i, 0) /\ InitialCell(p, cols, i, 0)
               /\ (c.with_pos \/ Len(c.pattern) = 1)
                      => \A j \in 0..(cols - 1) : InitialCell(m, cols, 0, j)

\* the choice indices (from 0) at which the one-character pattern matches
Occurrences(choice, pattern, case_sensitive) ==
    {k \in 0..(Len(choice) - 1) : SameChar(choice[k + 1], pattern[1], case_sensitive)}

\* C17: on the matrix path, for a one-character pattern whose only occurrence
\* in the choice is at index k, the score is the match score of that cell plus
\* k * gap_extension: one gap_extension for each character skipped before the
\* first match, and no gap_start.
C17_LeadingGapPerCharacter ==
    (Done(MainThread, "fuzzy") /\ ret[MainThread].some /\ m_cache[MainThread].present
     /\ Len(call[MainThread].pattern) = 1)
        => LET c == call[MainThread]
               cs == PolicyCaseSensitive(case, c.pattern)
           IN  \A k \in Occurrences(c.choice, c.pattern, cs) :
                   Occurrences(c.choice, c.pattern, cs) = {k}
                       => ret[MainThread].score
                              = CellMatchScore(c.choice, c.pattern, 0, k, cs)
                                + k * gap_extension

\* the match score of pattern index i on choice index j with the role bonus
\* multiplied exactly when j = 0, the first character of the choice
FirstChoiceCharMatchScore(choice, pattern, i, j, case_sensitive) ==
    LET bonus0 == in_place_bonus(CharType_of(IF j = 0 THEN NUL ELSE choice[j]),
                                 CharType_of(choice[j + 1]))
        bonus1 == IF j = 0 THEN bonus0 * bonus_first_char_multiplier ELSE bonus0
        bonus2 == IF ~case_sensitive /\ pattern[i + 1] # choice[j + 1]
                  THEN bonus1 + penalty_case_mismatch ELSE bonus1
    IN  Max(0, score_match + bonus2)

\* C18: in the matrix fill the match score of pattern index i on choice index
\* j has its role bonus multiplied by bonus_first_char_multiplier exactly when
\* j = 0, whatever i is: every matching cell of the built full matrices holds
\* that match score plus max(M[i-1][j-1] + bonus_consecutive, P[i-1][j-1]).
C18_FirstCharMultiplier ==
    BuiltFull(MainThread)
        => LET c == call[MainThread]
               cols == Len(c.choice) + 1
               m == m_cache[MainThread].vec
               p == p_cache[MainThread].vec
               cs == PolicyCaseSensitive(case, c.pattern)
           IN  \A i \in 0..(Len(c.pattern) - 1), j \in 0..(Len(c.choice) - 1) :
                   SameChar(c.choice[j + 1], c.pattern[i + 1], cs)
                       => get_score(m, cols, i + 1, j + 1)
                              = FirstChoiceCharMatchScore(c.choice, c.pattern, i, j, cs)
                                + Max(get_score(m, cols, i, j) + bonus_consecutive,
                                      get_score(p, cols, i, j))

\* the V1 score of a candidate without any leading penalty: choice index n
\* matched by the pattern character pat_ch
V1BaseScore(choice, n, pat_ch) ==
    LET prev == IF n = 0 THEN NUL ELSE choice[n]
    IN  BONUS_MATCHED
        + (IF pat_ch = choice[n + 1]
           THEN (IF pat_ch \in AsciiUpper THEN BONUS_UPPER_MATCH ELSE BONUS_CASE_MATCH)
           ELSE PENALTY_CASE_UNMATCHED)
        + (IF CharRole_of(prev, choice[n + 1]) # "Tail" THEN BONUS_CAMEL ELSE 0)
        + (IF prev \in HardSepChars \union SoftSepChars THEN BONUS_SEPARATOR ELSE 0)

\* the leading penalty as stated: max(n * (-6), -18)
StatedLeadingPenalty(n) ==
    IF n = 0 THEN 0 ELSE IF n = 1 THEN -6 ELSE IF n = 2 THEN -12 ELSE -18

\* the choice indices (from 0) whose character equals ch up to ASCII case
V1Occurrences(choice, ch) ==
    {n \in 0..(Len(choice) - 1) : SameChar(choice[n + 1], ch, FALSE)}

\* C19: in V1 a candidate for the first pattern character at choice index n
\* gets the leading penalty max(n * (-6), -18) on top of its base score (0, -6,
\* -12, then -18 for every n >= 3), and candidates of later pattern characters
\* get none. Seen through the returned score: for a one-character pattern it
\* is the greatest base score plus penalty over the occurrences; for a
\* two-character pattern with exactly two occurrences n1 < n2 it is the first
\* one's base score plus penalty, the second one's base score alone, and the
\* adjacency bonus or the penalty for the characters between them.
C19_LeadingPenaltyCap ==
    \A fn \in {"v1_fuzzy_match", "v1_fuzzy_indices"} :
        (Done(MainThread, fn) /\ ret[MainThread].some)
            => LET c == call[MainThread]
                   occ == V1Occurrences(c.choice, c.pattern[1])
               IN  /\ Len(c.pattern) = 1
                          => \E n \in occ :
                                 /\ ret[MainThread].score
                                        = V1BaseScore(c.choice, n, c.pattern[1])
                                          + StatedLeadingPenalty(n)
                                 /\ \A l \in occ :
                                        V1BaseScore(c.choice, l, c.pattern[1])
                                        + StatedLeadingPenalty(l)
                                            <= ret[MainThread].score
                   /\ (Len(c.pattern) = 2 /\ Cardinality(occ) = 2
                       /\ V1Occurrences(c.choice, c.pattern[2]) = occ)
                          => \E n1 \in occ, n2 \in occ :
                                 /\ n1 < n2
                                 /\ ret[MainThread].score
                                        = V1BaseScore(c.choice, n1, c.pattern[1])
                                          + StatedLeadingPenalty(n1)
                                          + V1BaseScore(c.choice, n2, c.pattern[2])
                                          + (IF n2 = n1 + 1 THEN BONUS_ADJACENCY
                                             ELSE PENALTY_UNMATCHED * (n2 - n1 - 1))

\* C19's case: V1 returned for a one-character pattern whose only occurrence
\* lies behind more than three other characters, where the cap is in force
C19_Witness ==
    /\ Done(MainThread, "v1_fuzzy_match")
    /\ ret[MainThread].some
    /\ Len(call[MainThread].pattern) = 1
    /\ \E n \in 4..(Len(call[MainThread].choice) - 1) :
           V1Occurrences(call[MainThread].choice, call[MainThread].pattern[1]) = {n}

====
